---- MODULE Spec2Model ----
(***************************************************************************)
(* freezebot (main.go): the run over configuration entries, repositories,  *)
(* directives and issues, the per-issue decisions of handleIssue and the   *)
(* retry loops of the four mutations, against a remote issue store.        *)
(*                                                                         *)
(* Time is counted in ticks, Hour ticks to the hour.  A time.Time is the   *)
(* number of ticks since the zero Time; a time.Duration saturates at       *)
(* MaxDuration as time.Time.Sub does.                                      *)
(***************************************************************************)
EXTENDS Integers, Sequences, FiniteSets, TLC

VARIABLES
    cfgs,       \* the configuration read at start-up ([]configEntry)
    store,      \* the remote store: repository name -> its issues
    now,        \* the wall clock, as of the latest reading of it
    ctl,        \* the position of main and the locals of the functions it is in
    status,     \* the exit status of the process, -1 while it runs
    eval,       \* history: <<>> or <<[i, d, now, repo]>>, the inputs of the latest
                \* handleIssue and the repository it is called for
    order,      \* history: the kinds of mutation the latest handleIssue has called, in
                \* the order of their first call
    succ,       \* history: the successful calls of the latest handleIssue, per kind
    tries,      \* history: the calls made by the latest retry loop
    sleeps,     \* history: the time.Sleep arguments (seconds) of the latest retry loop
    dirCalls,   \* history: a mutation has been called for an issue of the selection
                \* that was the latest to start
    exhausted,  \* history: some retry loop has had all its attempts fail
    fetchFailed, \* history: "none", or which page fetch has failed: "issues" or "repos"
    lastCall,   \* history: the place in the nested loops of the latest remote call
    visited,    \* history: the repositories handleRepoIssues has fetched issues for, in
                \* order, under the entry that was the latest to pass the owner check
    listed,     \* history: the Repositories.List requests under that entry and their
                \* responses, [page, items, next]
    fetched,    \* history: the requests of the latest issue selection and their
                \* responses, [page, items, next]
    lockedByRun \* history: the <<repository, number>> of the issues a Lock call of this
                \* run has succeeded for

vars == <<cfgs, store, now, ctl, status, eval, order, succ, tries, sleeps, dirCalls, exhausted,
          fetchFailed, lastCall, visited, listed, fetched, lockedByRun>>

\* the history of the mutation calls and of the failures
hist == <<eval, order, succ, tries, sleeps, dirCalls, exhausted, fetchFailed>>

\* the history of the run through the loops
trail == <<lastCall, visited, listed, fetched, lockedByRun>>

(***************************************************************************)
(* Bounds of the model: the ticks to the hour, the largest DaysClosed and   *)
(* DaysNotUpdated of a directive, the ticks a run may take, and the items  *)
(* of a page (ListOptions.PerPage, 100 in the program).                    *)
(***************************************************************************)
Hour == 2
MaxDays == 1
MaxElapsed == 1
PerPage == 1

(***************************************************************************)
(* Program constants and time arithmetic.                                  *)
(***************************************************************************)
retries == 5

Day == 24 * Hour

\* the largest time.Duration: 2^63-1 ns is 2562047 h and a fraction
MaxDuration == 2562047 * Hour + (Hour - 1)

\* the zero time.Time, which GetClosedAt and GetUpdatedAt return for an absent field
ZeroTime == 0

\* the clock when the process starts: some 2026 years after the zero Time
StartTime == 17760000 * Hour

Min(a, b) == IF a < b THEN a ELSE b

\* Go's integer division truncates toward zero
Quo(a, b) == IF a >= 0 THEN a \div b ELSE -((-a) \div b)

\* time.Since(t) at clock value n: n.Sub(t), saturating
Since(n, t) ==
    LET d == n - t
    IN  IF d > MaxDuration THEN MaxDuration
        ELSE IF d < -MaxDuration THEN -MaxDuration
        ELSE d

daysSince(n, t) == Quo(Quo(Since(n, t), 24), Hour)

\* variant: only the first label is compared
contains_first(l, t) == l # <<>> /\ Head(l) = t

RECURSIVE contains(_, _)
contains(l, t) ==
    IF l = <<>> THEN FALSE
    ELSE IF Head(l) = t THEN TRUE
    ELSE contains(Tail(l), t)

(***************************************************************************)
(* The remote store.                                                       *)
(***************************************************************************)
Kinds == {"label", "comment", "close", "lock"}

NoCalls == [k \in Kinds |-> 0]

\* the repositories of the one owner the store knows, as Repositories.List pages them
OwnerRepos == <<"x", "y">>

RepoNames == {"x", "y"}

PageOf(seq, p) == SubSeq(seq, (p - 1) * PerPage + 1, Min(p * PerPage, Len(seq)))

NextPageOf(seq, p) == IF p * PerPage < Len(seq) THEN p + 1 ELSE 0

\* a request with Page unset (0) asks for the first page
ReqPage(p) == IF p = 0 THEN 1 ELSE p

\* Issues.ListByRepo: the issues in the requested state, "open" when none is given
ListByRepo(repo, state) ==
    LET st == IF state = "" THEN "open" ELSE state
    IN  SelectSeq(store[repo], LAMBDA x : st = "all" \/ x.state = st)

\* Search.Issues, sort created, order asc, query "<q> repo:<owner>/<repo>": the
\* issues of the repository that match; "is:open" is the one query modelled
SearchIssues(repo, query) ==
    SelectSeq(store[repo], LAMBDA x : query # "is:open" \/ x.state = "open")

\* what a successful mutation does to the issue it names
Mutated(x, kind, label, n) ==
    CASE kind = "label"   -> [x EXCEPT !.labels = IF contains(@, label) THEN @ ELSE Append(@, label),
                                       !.updatedAt = n]
      [] kind = "comment" -> [x EXCEPT !.updatedAt = n]
      [] kind = "close"   -> [x EXCEPT !.state = "closed",
                                       !.closedAt = IF x.state = "closed" THEN @ ELSE n,
                                       !.updatedAt = n]
      [] kind = "lock"    -> [x EXCEPT !.locked = TRUE]

StoreAfter(repo, number, kind, label) ==
    [store EXCEPT ![repo] =
        [k \in DOMAIN @ |-> IF @[k].number = number THEN Mutated(@[k], kind, label, now) ELSE @[k]]]

(***************************************************************************)
(* Control: the nested range loops of main and handleRepoIssues.  Each     *)
(* operator takes the locals with a loop index set and gives the locals at *)
(* the next remote call or decision.                                       *)
(***************************************************************************)
Directives(c) == cfgs[c.ei].Directives

\* variant: the range over cfgs does not move on to the next entry
nextEntry_again(c) ==
    [c EXCEPT !.pc = "main", !.listing = FALSE, !.rs = <<>>, !.ri = 1,
              !.page = 0, !.nextPage = 0, !.di = 1, !.issues = <<>>, !.ii = 1]

\* back at the head of the range over cfgs, for the next entry
nextEntry(c) ==
    [c EXCEPT !.pc = "main", !.ei = @ + 1, !.listing = FALSE, !.rs = <<>>, !.ri = 1,
              !.page = 0, !.nextPage = 0, !.di = 1, !.issues = <<>>, !.ii = 1]

\* variant: the continue after an explicit list is missing, and the repositories of
\* the owner are listed as well
afterRepos_noContinue(c) ==
    IF ~c.listing \/ c.nextPage # 0
    THEN [c EXCEPT !.pc = "listRepos", !.listing = TRUE, !.page = c.nextPage, !.nextPage = 0,
                   !.rs = <<>>, !.ri = 1, !.di = 1, !.issues = <<>>, !.ii = 1]
    ELSE nextEntry(c)

\* after the range over the repositories of an explicit list or of a listed page
afterRepos(c) ==
    IF c.listing /\ c.nextPage # 0
    THEN [c EXCEPT !.pc = "listRepos", !.page = c.nextPage, !.nextPage = 0,
                   !.rs = <<>>, !.ri = 1, !.di = 1, !.issues = <<>>, !.ii = 1]
    ELSE nextEntry(c)

RECURSIVE rangeRepos(_)
\* variant: the issues selected for the first directive serve the later ones
rangeDirectives_cached(c) ==
    IF c.di > Len(Directives(c))
    THEN rangeRepos([c EXCEPT !.ri = @ + 1, !.di = 1, !.issues = <<>>, !.ii = 1])
    ELSE IF c.di > 1 /\ c.issues # <<>>
         THEN [c EXCEPT !.pc = "handleIssue", !.ii = 1]
         ELSE [c EXCEPT !.pc = "findIssues", !.opage = 0, !.res = <<>>, !.issues = <<>>, !.ii = 1]

\* handleRepoIssues: the range over directives, at index c.di
rangeDirectives(c) ==
    IF c.di > Len(Directives(c))
    THEN rangeRepos([c EXCEPT !.ri = @ + 1, !.di = 1, !.issues = <<>>, !.ii = 1])
    ELSE [c EXCEPT !.pc = "findIssues", !.opage = 0, !.res = <<>>, !.issues = <<>>, !.ii = 1]

\* main: the range over repositories, at index c.ri
rangeRepos(c) ==
    IF c.ri > Len(c.rs)
    THEN afterRepos(c)
    ELSE rangeDirectives([c EXCEPT !.di = 1])

\* handleRepoIssues: the range over the selected issues, at index c.ii
rangeIssues(c) ==
    IF c.ii > Len(c.issues)
    THEN rangeDirectives([c EXCEPT !.di = @ + 1])
    ELSE [c EXCEPT !.pc = "handleIssue"]

\* os.Exit
Exit(code) ==
    /\ ctl' = [ctl EXCEPT !.pc = "exit"]
    /\ status' = code

(***************************************************************************)
(* handleIssue: the decisions.                                             *)
(***************************************************************************)
\* what time.Now may return: the clock never runs backwards, and the run takes at
\* most MaxElapsed ticks
Clock == now..(StartTime + MaxElapsed)

\* variant: the check for locked issues is missing
isLocked_off(i) == FALSE

\* i.GetLocked()
isLocked(i) == i.locked

\* variant: an issue closed exactly DaysClosed days ago is still too recent
closedTooRecently_inclusive(i, d, n) ==
    d.DaysClosed > 0 /\ daysSince(n, i.closedAt) <= d.DaysClosed

\* directive.DaysClosed > 0 && daysSince(i.GetClosedAt()) < directive.DaysClosed
closedTooRecently(i, d, n) == d.DaysClosed > 0 /\ daysSince(n, i.closedAt) < d.DaysClosed

\* variant: the check of the last update is missing
updatedTooRecently_off(i, d, n) == FALSE

\* directive.DaysNotUpdated > 0 && daysSince(i.GetUpdatedAt()) < directive.DaysNotUpdated
updatedTooRecently(i, d, n) == d.DaysNotUpdated > 0 /\ daysSince(n, i.updatedAt) < d.DaysNotUpdated

\* directive.Label != "" && !contains(i.Labels, directive.Label)
needsLabel(i, d) == d.Label # "" /\ ~contains(i.labels, d.Label)

\* variant: the state of the snapshot is not looked at
needsClose_always(i, d) == d.Close

\* directive.Close && i.GetState() != "closed"
needsClose(i, d) == d.Close /\ i.state # "closed"

\* directive.CloseComment != "", inside the close branch
needsComment(i, d) == needsClose(i, d) /\ d.CloseComment # ""

\* variant: only the first issue of a selection is locked
needsLock_first(i, d) == d.Lock /\ ctl.ii = 1

\* directive.Lock
needsLock(i, d) == d.Lock

\* the locals on entry to one of the four retry functions: var err error; i := 0
enter(c, f) == [c EXCEPT !.pc = f, !.i = 0, !.err = FALSE]

\* variant: the issue is closed first and commented on afterwards
nextStep_closeFirst(c, from) ==
    LET i == c.issues[c.ii]
        d == Directives(c)[c.di]
    IN  IF from = "start" /\ needsLabel(i, d) THEN enter(c, "labelIssue")
        ELSE IF from \in {"start", "label"} /\ needsClose(i, d) THEN enter(c, "closeIssue")
        ELSE IF from \in {"start", "label", "close"} /\ needsComment(i, d) THEN enter(c, "commentIssue")
        ELSE IF from # "lock" /\ needsLock(i, d) THEN enter(c, "lockIssue")
        ELSE rangeIssues([c EXCEPT !.ii = @ + 1, !.i = 0, !.err = FALSE])

\* variant: the issue is locked first
nextStep_lockFirst(c, from) ==
    LET i == c.issues[c.ii]
        d == Directives(c)[c.di]
    IN  IF from = "start" /\ needsLock(i, d) THEN enter(c, "lockIssue")
        ELSE IF from \in {"start", "lock"} /\ needsLabel(i, d) THEN enter(c, "labelIssue")
        ELSE IF from \in {"start", "lock", "label"} /\ needsComment(i, d)
             THEN enter(c, "commentIssue")
        ELSE IF from # "close" /\ needsClose(i, d) THEN enter(c, "closeIssue")
        ELSE rangeIssues([c EXCEPT !.ii = @ + 1, !.i = 0, !.err = FALSE])

\* the statements of handleIssue after its early returns, in order: where it goes
\* next once the stage `from` is behind it
nextStep(c, from) ==
    LET i == c.issues[c.ii]
        d == Directives(c)[c.di]
    IN  IF from = "start" /\ needsLabel(i, d) THEN enter(c, "labelIssue")
        ELSE IF from \in {"start", "label"} /\ needsComment(i, d) THEN enter(c, "commentIssue")
        ELSE IF from \in {"start", "label", "comment"} /\ needsClose(i, d) THEN enter(c, "closeIssue")
        ELSE IF from # "lock" /\ needsLock(i, d) THEN enter(c, "lockIssue")
        ELSE rangeIssues([c EXCEPT !.ii = @ + 1, !.i = 0, !.err = FALSE])

\* The early returns and the choice of the first mutation.  The two time.Since
\* calls follow each other with no remote call in between: one reading n of the
\* clock serves both.
handleIssue ==
    /\ ctl.pc = "handleIssue"
    /\ \E n \in Clock :
         LET i == ctl.issues[ctl.ii]
             d == Directives(ctl)[ctl.di]
         IN  /\ now' = n
             /\ eval' = <<[i |-> i, d |-> d, now |-> n, repo |-> ctl.rs[ctl.ri]]>>
             /\ ctl' = IF \/ isLocked(i)
                          \/ closedTooRecently(i, d, n)
                          \/ updatedTooRecently(i, d, n)
                       THEN rangeIssues([ctl EXCEPT !.ii = @ + 1])
                       ELSE nextStep(ctl, "start")
    /\ order' = <<>>
    /\ succ' = NoCalls
    /\ tries' = 0
    /\ sleeps' = <<>>
    /\ UNCHANGED <<cfgs, store, status, dirCalls, exhausted, fetchFailed, trail>>

(***************************************************************************)
(* The retry loops.  One step is one iteration: the remote call, and on    *)
(* failure the sleep, the increment and, after the last iteration, the     *)
(* check of the function's err variable.                                   *)
(***************************************************************************)
\* variant: the sleep grows from one second
backoff_next(i) == i + 1

\* time.Sleep(time.Duration(i) * time.Second): the seconds slept
backoff(i) == i

\* variant: one iteration too many
loops_extra(i) == i <= retries

\* i < retries
loops(i) == i < retries

\* the place of a mutation in the statements of handleIssue
Rank(kind) ==
    CASE kind = "label" -> 1 [] kind = "comment" -> 2 [] kind = "close" -> 3 [] kind = "lock" -> 4

\* the page of the repository listing the run is in: none under an explicit list
RepoPage(c) == IF c.listing THEN ReqPage(c.page) ELSE 0

\* the place of a remote call: entry, page of repositories, repository, directive,
\* issue (0: the selection) and step (the page of a selection, the rank of a mutation)
Place(c, ii, st) ==
    [ei |-> c.ei, rp |-> RepoPage(c), ri |-> c.ri, di |-> c.di, ii |-> ii, st |-> st]

\* One iteration of the loop of the function at pc f.  assigns: the call's error is
\* assigned to the function's err (labelIssue) and not to a variable declared in the
\* loop body that shadows it (lockIssue, closeIssue, commentIssue).
iteration(f, kind, assigns) ==
    /\ ctl.pc = f
    /\ LET i == ctl.issues[ctl.ii]
           d == Directives(ctl)[ctl.di]
           first == ctl.i = 0
           before == IF first THEN <<>> ELSE sleeps
       IN  \E ok \in BOOLEAN :
             /\ order' = IF first THEN Append(order, kind) ELSE order
             /\ tries' = IF first THEN 1 ELSE tries + 1
             /\ dirCalls' = TRUE
             /\ lastCall' = Place(ctl, ctl.ii, Rank(kind))
             /\ lockedByRun' = IF ok /\ kind = "lock"
                               THEN lockedByRun \cup {<<ctl.rs[ctl.ri], i.number>>}
                               ELSE lockedByRun
             /\ IF ok
                THEN /\ succ' = [succ EXCEPT ![kind] = @ + 1]
                     /\ store' = StoreAfter(ctl.rs[ctl.ri], i.number, kind, d.Label)
                     /\ sleeps' = before
                     /\ ctl' = nextStep(ctl, kind)
                     /\ UNCHANGED <<status, exhausted>>
                ELSE /\ sleeps' = Append(before, backoff(ctl.i))
                     /\ UNCHANGED <<succ, store>>
                     /\ LET err == IF assigns THEN TRUE ELSE ctl.err
                        IN  IF loops(ctl.i + 1)
                            THEN /\ ctl' = [ctl EXCEPT !.i = @ + 1, !.err = err]
                                 /\ UNCHANGED <<status, exhausted>>
                            ELSE /\ exhausted' = TRUE
                                 /\ IF err
                                    THEN Exit(1)
                                    ELSE /\ ctl' = nextStep(ctl, kind)
                                         /\ status' = status
    /\ UNCHANGED <<cfgs, now, eval, fetchFailed, visited, listed, fetched>>

labelIssue == iteration("labelIssue", "label", TRUE)

lockIssue == iteration("lockIssue", "lock", FALSE)

closeIssue == iteration("closeIssue", "close", FALSE)

commentIssue == iteration("commentIssue", "comment", FALSE)

(***************************************************************************)
(* Selection and the run.                                                  *)
(***************************************************************************)
\* variant: the error ends the page loop and the issues fetched so far are handled
fetchError_partial ==
    /\ ctl' = rangeIssues([ctl EXCEPT !.issues = ctl.res, !.ii = 1, !.res = <<>>, !.opage = 0])
    /\ status' = status

\* a page fetch of findIssuesByList or findIssuesByQuery returns an error: the function
\* returns it at once and handleRepoIssues exits
fetchError == Exit(1)

\* variant: the page loop ends after the first page
morePages_never(np) == FALSE

\* resp.NextPage == 0 breaks the page loop
morePages(np) == np # 0

\* findIssues: one iteration of the page loop of findIssuesByQuery or findIssuesByList
findIssues ==
    /\ ctl.pc = "findIssues"
    /\ LET d == Directives(ctl)[ctl.di]
           repo == ctl.rs[ctl.ri]
           all == IF d.Query # "" THEN SearchIssues(repo, d.Query) ELSE ListByRepo(repo, d.State)
           p == ReqPage(ctl.opage)
       IN  \E ok \in BOOLEAN :
             IF ~ok
             THEN /\ fetchFailed' = "issues"
                  /\ fetched' = IF ctl.opage = 0 THEN <<>> ELSE fetched
                  /\ fetchError
             ELSE /\ fetchFailed' = fetchFailed
                  /\ status' = status
                  /\ LET res == ctl.res \o PageOf(all, p)
                         np == NextPageOf(all, p)
                     IN  /\ fetched' = Append(IF ctl.opage = 0 THEN <<>> ELSE fetched,
                                              [page |-> ctl.opage, items |-> PageOf(all, p),
                                               next |-> np])
                         /\ ctl' = IF morePages(np)
                                   THEN [ctl EXCEPT !.res = res, !.opage = np]
                                   ELSE rangeIssues([ctl EXCEPT !.issues = res, !.ii = 1,
                                                                !.res = <<>>, !.opage = 0])
    /\ dirCalls' = IF ctl.opage = 0 THEN FALSE ELSE dirCalls
    /\ lastCall' = Place(ctl, 0, ReqPage(ctl.opage))
    /\ visited' = IF ctl.di = 1 /\ ctl.opage = 0 THEN Append(visited, ctl.rs[ctl.ri]) ELSE visited
    /\ UNCHANGED <<cfgs, store, now, eval, order, succ, tries, sleeps, exhausted, listed,
                   lockedByRun>>

\* main: one iteration of the loop over Repositories.List pages
listRepos ==
    /\ ctl.pc = "listRepos"
    /\ LET p == ReqPage(ctl.page)
       IN  \E ok \in BOOLEAN :
             IF ~ok
             THEN /\ fetchFailed' = "repos"
                  /\ listed' = listed
                  /\ Exit(1)
             ELSE /\ fetchFailed' = fetchFailed
                  /\ status' = status
                  /\ listed' = Append(listed, [page |-> ctl.page, items |-> PageOf(OwnerRepos, p),
                                               next |-> NextPageOf(OwnerRepos, p)])
                  /\ ctl' = rangeRepos([ctl EXCEPT !.rs = PageOf(OwnerRepos, p), !.ri = 1,
                                                   !.nextPage = NextPageOf(OwnerRepos, p)])
    /\ lastCall' = [Place(ctl, 0, 0) EXCEPT !.ri = 0, !.di = 0]
    /\ UNCHANGED <<cfgs, store, now, eval, order, succ, tries, sleeps, dirCalls, exhausted,
                   visited, fetched, lockedByRun>>

\* variant: an entry without owner is reported as any other failure
ownerMissing_one == Exit(1)

\* variant: an entry without owner is skipped
ownerMissing_skip ==
    /\ ctl' = nextEntry(ctl)
    /\ status' = status

\* cfg.Owner == "": the message and os.Exit(2)
ownerMissing == Exit(2)

\* main: the head of the range over cfgs
main ==
    /\ ctl.pc = "main"
    /\ IF ctl.ei > Len(cfgs)
       THEN /\ Exit(0)
            /\ UNCHANGED <<visited, listed>>
       ELSE LET cfg == cfgs[ctl.ei]
            IN  IF cfg.Owner = ""
                THEN /\ ownerMissing
                     /\ UNCHANGED <<visited, listed>>
                ELSE /\ status' = status
                     /\ visited' = <<>>
                     /\ listed' = <<>>
                     /\ ctl' = IF Len(cfg.Repos) > 0
                               THEN rangeRepos([ctl EXCEPT !.rs = cfg.Repos, !.ri = 1,
                                                           !.listing = FALSE])
                               ELSE [ctl EXCEPT !.pc = "listRepos", !.listing = TRUE,
                                                !.page = 0]
    /\ UNCHANGED <<cfgs, store, now, hist, lastCall, fetched, lockedByRun>>

(***************************************************************************)
(* Inputs.                                                                 *)
(***************************************************************************)
\* timestamps an issue may carry: absent, or one tick short of, or exactly, a whole
\* number of days before the process starts
Times == {StartTime - (k * Day - e) : k \in 1..MaxDays, e \in {0, 1}}

LabelLists == {<<>>, <<"other", "stale">>}

\* every directive over small field values
AllDirectives ==
    [Query : {""}, State : {"", "closed"},
     DaysClosed : 0..MaxDays, DaysNotUpdated : 0..MaxDays,
     Label : {"", "stale"}, Lock : BOOLEAN, Close : BOOLEAN, CloseComment : {"", "bye"}]

\* every snapshot of issue 1 over small field values
AllIssues ==
    [number : {1}, state : {"open", "closed"}, locked : BOOLEAN,
     closedAt : {ZeroTime} \cup Times, updatedAt : Times, labels : LabelLists]

\* the locals when main starts
Start ==
    [pc |-> "main", ei |-> 1, listing |-> FALSE, rs |-> <<>>, ri |-> 1, page |-> 0,
     nextPage |-> 0, di |-> 1, opage |-> 0, res |-> <<>>, issues |-> <<>>, ii |-> 1,
     i |-> 0, err |-> FALSE]

NoHistory ==
    /\ eval = <<>>
    /\ order = <<>>
    /\ succ = NoCalls
    /\ tries = 0
    /\ sleeps = <<>>
    /\ dirCalls = FALSE
    /\ exhausted = FALSE
    /\ fetchFailed = "none"
    /\ lastCall = [ei |-> 0, rp |-> 0, ri |-> 0, di |-> 0, ii |-> 0, st |-> 0]
    /\ visited = <<>>
    /\ listed = <<>>
    /\ fetched = <<>>
    /\ lockedByRun = {}

\* handleIssue called for one issue of repository x under the one directive of the
\* one entry: any directive, any snapshot
InitEval ==
    /\ \E d \in AllDirectives :
         cfgs = <<[Owner |-> "acme", Repos |-> <<"x">>, Directives |-> <<d>>]>>
    /\ \E i \in AllIssues :
         /\ store = [r \in RepoNames |-> IF r = "x" THEN <<i>> ELSE <<>>]
         /\ ctl = [Start EXCEPT !.pc = "handleIssue", !.rs = <<"x">>, !.issues = <<i>>]
    /\ now = StartTime
    /\ status = -1
    /\ NoHistory

EvalNext ==
    \/ handleIssue
    \/ labelIssue
    \/ commentIssue
    \/ closeIssue
    \/ lockIssue
    \/ main

EvalSpec == InitEval /\ [][EvalNext]_vars

(***************************************************************************)
(* Whole runs: a few configurations against a few stores.                  *)
(***************************************************************************)
\* the zero configDirective
Directive0 ==
    [Query |-> "", State |-> "", DaysClosed |-> 0, DaysNotUpdated |-> 0,
     Label |-> "", Lock |-> FALSE, Close |-> FALSE, CloseComment |-> ""]

\* label the issues closed a day ago
dStale == [Directive0 EXCEPT !.State = "closed", !.DaysClosed = 1, !.Label = "stale"]

\* comment on, close and label the open issues not updated for a day
dClose ==
    [Directive0 EXCEPT !.Query = "is:open", !.DaysNotUpdated = 1, !.Label = "stale",
                       !.Close = TRUE, !.CloseComment = "bye"]

\* lock the closed issues
dLock == [Directive0 EXCEPT !.State = "closed", !.Lock = TRUE]

\* close and lock everything, without a comment
dAll == [Directive0 EXCEPT !.State = "all", !.Close = TRUE, !.Lock = TRUE]

DirectiveLists == {<<dStale>>, <<dClose, dLock>>, <<dAll, dStale>>}

RepoLists == {<<>>, <<"x">>, <<"y", "x">>}

Entries ==
    [Owner : {"acme"}, Repos : RepoLists, Directives : DirectiveLists]
    \cup {[Owner |-> "", Repos |-> <<"x">>, Directives |-> <<dLock>>]}

Configs ==
    {<<e>> : e \in Entries}
    \cup {<<e, f>> : e \in {g \in Entries : Len(g.Directives) = 1 \/ g.Owner = ""}, f \in Entries}

Issue0(n) ==
    [number |-> n, state |-> "open", locked |-> FALSE, closedAt |-> ZeroTime,
     updatedAt |-> StartTime - Day, labels |-> <<>>]

\* open, last updated a tick short of a day before the start
Fresh(n) == [Issue0(n) EXCEPT !.updatedAt = StartTime - (Day - 1)]

\* closed a day before the start
Closed(n) == [Issue0(n) EXCEPT !.state = "closed", !.closedAt = StartTime - Day]

\* closed, labelled and locked
Locked(n) == [Closed(n) EXCEPT !.locked = TRUE, !.labels = <<"other", "stale">>]

Init ==
    /\ cfgs \in Configs
    /\ \E sx \in {<<Issue0(1), Closed(2)>>, <<Fresh(1), Locked(2)>>}, sy \in {<<>>, <<Closed(1)>>} :
         store = [r \in RepoNames |-> IF r = "x" THEN sx ELSE sy]
    /\ now = StartTime
    /\ ctl = Start
    /\ status = -1
    /\ NoHistory

Next ==
    \/ main
    \/ listRepos
    \/ findIssues
    \/ handleIssue
    \/ labelIssue
    \/ commentIssue
    \/ closeIssue
    \/ lockIssue

Spec == Init /\ [][Next]_vars

\* The process is never suspended: it takes its next step as long as it has one.
FairSpec == Spec /\ WF_vars(Next)

(***************************************************************************)
(* Properties.                                                             *)
(***************************************************************************)
\* the kind k of mutation has been called by the latest handleIssue
Called(k) == \E j \in 1..Len(order) : order[j] = k

\* the label t is among the labels l
HasLabel(l, t) == \E j \in 1..Len(l) : l[j] = t

\* the inputs e of a handleIssue fall under its check of the closing time
BlockedByClosed(e) == e.d.DaysClosed > 0 /\ daysSince(e.now, e.i.closedAt) < e.d.DaysClosed

\* the inputs e of a handleIssue fall under its check of the last update
BlockedByUpdated(e) ==
    e.d.DaysNotUpdated > 0 /\ daysSince(e.now, e.i.updatedAt) < e.d.DaysNotUpdated

\* the inputs e of a handleIssue pass its three early returns
Passes(e) == ~e.i.locked /\ ~BlockedByClosed(e) /\ ~BlockedByUpdated(e)

\* C1: whatever the directive, handleIssue makes no mutation call of any kind for
\* an issue whose snapshot is locked.
C1_LockedNeverMutated ==
    (eval # <<>> /\ eval[1].i.locked) => (order = <<>> /\ tries = 0 /\ succ = NoCalls)

\* C1 witness: a locked issue has been handled to the end under a directive that
\* asks for a label, a comment, the closing and the locking of an open issue.
C1_Witness ==
    /\ eval # <<>>
    /\ status = 0
    /\ eval[1].i.locked
    /\ eval[1].i.state = "open"
    /\ eval[1].i.labels = <<>>
    /\ eval[1].d.Label # ""
    /\ eval[1].d.Close
    /\ eval[1].d.CloseComment # ""
    /\ eval[1].d.Lock
    /\ eval[1].d.DaysClosed = 0
    /\ eval[1].d.DaysNotUpdated = 0

\* C2: once all 5 attempts of a mutation have failed, the run has ended with a
\* non-zero exit status (and so makes no further remote call); a run that ends with
\* status 0 has had no mutation fail for good.
C2_ExhaustionIsFatal ==
    exhausted => (ctl.pc = "exit" /\ status \notin {-1, 0})

\* C3: under a directive with Close set and a CloseComment, for an unlocked issue
\* whose snapshot is not closed, no CreateComment call comes after a SetState call,
\* and a SetState call is preceded by a CreateComment call.
C3_CommentBeforeClose ==
    (/\ eval # <<>>
     /\ eval[1].d.Close
     /\ eval[1].d.CloseComment # ""
     /\ ~eval[1].i.locked
     /\ eval[1].i.state # "closed")
    => /\ \A j, k \in 1..Len(order) : (order[j] = "close" /\ order[k] = "comment") => k < j
       /\ Called("close") => Called("comment")

\* C3 witness: both the comment and the closing have been called for such an issue.
C3_Witness ==
    /\ eval # <<>>
    /\ eval[1].d.Close
    /\ eval[1].d.CloseComment # ""
    /\ ~eval[1].i.locked
    /\ eval[1].i.state # "closed"
    /\ Called("comment")
    /\ Called("close")
    /\ succ["comment"] = 1
    /\ succ["close"] = 1

\* C4: within one handleIssue, each kind of mutation that is called is called in one
\* retry loop only, which makes at least 1 and at most 5 calls and none after a
\* call that succeeded (so at most one call per kind succeeds), whatever the
\* outcome of the loops of the other kinds.
C4_AttemptsBounded ==
    /\ \A j, k \in 1..Len(order) : order[j] = order[k] => j = k
    /\ tries <= 5
    /\ order # <<>> => tries >= 1
    /\ \A k \in Kinds : succ[k] <= 1
    /\ \A k \in Kinds : succ[k] = 1 => ctl.pc # k \o "Issue"
    /\ (order # <<>> /\ succ[order[Len(order)]] = 1) => tries = Len(sleeps) + 1
    /\ (order # <<>> /\ succ[order[Len(order)]] = 0) => tries = Len(sleeps)

\* C4 witness: all four kinds have been called; the comment failed 5 times, the
\* closing then succeeded, and the lock succeeded at its fifth call.
C4_Witness ==
    /\ order = <<"label", "comment", "close", "lock">>
    /\ succ = [k \in Kinds |-> IF k = "comment" THEN 0 ELSE 1]
    /\ tries = 5

\* C5: a retry loop whose call succeeds after k failures (0 <= k <= 4) has slept
\* exactly k times, for 0, 1, ..., k-1 seconds in that order, and not before its
\* first call.
C5_LinearBackoff ==
    (order # <<>> /\ succ[order[Len(order)]] = 1)
    => /\ tries \in 1..5
       /\ sleeps = [j \in 1..(tries - 1) |-> j - 1]

\* C5 witness: a loop has succeeded at its fifth call after sleeps of 0, 1, 2 and 3
\* seconds.
C5_Witness ==
    /\ order # <<>>
    /\ succ[order[Len(order)]] = 1
    /\ tries = 5
    /\ sleeps = <<0, 1, 2, 3>>

\* C6: for an unlocked issue, DaysClosed > 0 with daysSince(closedAt) < DaysClosed,
\* or DaysNotUpdated > 0 with daysSince(updatedAt) < DaysNotUpdated, means that no
\* mutation is called; a value of 0 switches the check off, whatever the timestamp.
C6_AgeChecksBlock ==
    /\ (eval # <<>> /\ ~eval[1].i.locked /\ (BlockedByClosed(eval[1]) \/ BlockedByUpdated(eval[1])))
       => (order = <<>> /\ tries = 0)
    /\ (/\ eval # <<>>
        /\ status = 0
        /\ ~eval[1].i.locked
        /\ eval[1].d.Lock
        /\ \/ eval[1].d.DaysClosed = 0 /\ ~BlockedByUpdated(eval[1])
           \/ eval[1].d.DaysNotUpdated = 0 /\ ~BlockedByClosed(eval[1]))
       => Called("lock")

\* C6 witness: an unlocked issue updated less than DaysNotUpdated days ago has been
\* handled to the end under a directive with DaysClosed = 0 that locks.
C6_Witness ==
    /\ eval # <<>>
    /\ status = 0
    /\ ~eval[1].i.locked
    /\ eval[1].d.DaysClosed = 0
    /\ eval[1].d.DaysNotUpdated > 0
    /\ eval[1].now - eval[1].i.updatedAt < eval[1].d.DaysNotUpdated * Day
    /\ eval[1].d.Lock
    /\ order = <<>>

\* C7: for a closing time not in the future, daysSince is the whole number of
\* 24-hour periods since it, rounded down; with DaysClosed = N > 0 an unlocked issue
\* closed less than N*24 hours ago is blocked, and one closed exactly N*24 hours ago
\* (or longer) is not blocked by this check.
C7_StrictDayBoundary ==
    (/\ eval # <<>>
     /\ ~eval[1].i.locked
     /\ eval[1].d.DaysClosed > 0
     /\ eval[1].i.closedAt # ZeroTime
     /\ eval[1].i.closedAt <= eval[1].now)
    => LET age == eval[1].now - eval[1].i.closedAt
           N == eval[1].d.DaysClosed
       IN  /\ daysSince(eval[1].now, eval[1].i.closedAt) * Day <= age
           /\ age < (daysSince(eval[1].now, eval[1].i.closedAt) + 1) * Day
           /\ age < N * Day => order = <<>>
           /\ (/\ age >= N * Day
               /\ ~BlockedByUpdated(eval[1])
               /\ eval[1].d.Lock
               /\ status = 0) => Called("lock")

\* C7 witness: an issue closed exactly DaysClosed * 24 hours before it is handled
\* has been locked.
C7_Witness ==
    /\ eval # <<>>
    /\ ~eval[1].i.locked
    /\ eval[1].d.DaysClosed > 0
    /\ eval[1].now - eval[1].i.closedAt = eval[1].d.DaysClosed * Day
    /\ status = 0
    /\ succ["lock"] = 1

\* C8: when the label of the directive is among the labels of the snapshot, AddLabel
\* is not called, and the comment, the closing and the lock are still called under
\* their own conditions.
C8_LabelPresentSkipsOnlyLabel ==
    (/\ eval # <<>>
     /\ eval[1].d.Label # ""
     /\ HasLabel(eval[1].i.labels, eval[1].d.Label))
    => /\ ~Called("label")
       /\ (status = 0 /\ Passes(eval[1]))
          => /\ (eval[1].d.Close /\ eval[1].i.state # "closed") => Called("close")
             /\ (eval[1].d.Close /\ eval[1].i.state # "closed" /\ eval[1].d.CloseComment # "")
                => Called("comment")
             /\ eval[1].d.Lock => Called("lock")

\* C8 witness: an issue that carries the label already has been commented on, closed
\* and locked.
C8_Witness ==
    /\ eval # <<>>
    /\ eval[1].d.Label = "stale"
    /\ eval[1].i.labels = <<"other", "stale">>
    /\ status = 0
    /\ order = <<"comment", "close", "lock">>

\* the directive d sets DaysClosed and Label and nothing else that handleIssue reads
OnlyDaysClosedAndLabel(d) ==
    /\ d.DaysClosed > 0
    /\ d.Label # ""
    /\ d.DaysNotUpdated = 0
    /\ ~d.Lock
    /\ ~d.Close
    /\ d.CloseComment = ""

\* C9: a kind of mutation is called only when the directive asks for it: AddLabel
\* only for a label that is set and absent from the snapshot, SetState only with
\* Close set and a snapshot that is not closed, CreateComment only if moreover
\* CloseComment is set, Lock only with Lock set.  A directive that sets only
\* DaysClosed and Label makes, for a qualifying issue without the label, AddLabel
\* calls only: exactly one when the first succeeds.
C9_OnlyEnabledKinds ==
    eval # <<>>
    => /\ Called("label")
          => (eval[1].d.Label # "" /\ ~HasLabel(eval[1].i.labels, eval[1].d.Label))
       /\ Called("close") => (eval[1].d.Close /\ eval[1].i.state # "closed")
       /\ Called("comment")
          => (eval[1].d.Close /\ eval[1].i.state # "closed" /\ eval[1].d.CloseComment # "")
       /\ Called("lock") => eval[1].d.Lock
       /\ (/\ OnlyDaysClosedAndLabel(eval[1].d)
           /\ Passes(eval[1])
           /\ ~HasLabel(eval[1].i.labels, eval[1].d.Label)
           /\ status = 0)
          => (order = <<"label">> /\ succ["label"] = 1 /\ tries = Len(sleeps) + 1)

\* C9 witness: the one AddLabel call of a directive that sets only DaysClosed and
\* Label has succeeded for a closed issue, and the run has ended.
C9_Witness ==
    /\ eval # <<>>
    /\ OnlyDaysClosedAndLabel(eval[1].d)
    /\ eval[1].i.state = "closed"
    /\ eval[1].i.closedAt # ZeroTime
    /\ status = 0
    /\ order = <<"label">>
    /\ tries = 1
    /\ sleeps = <<>>

\* C10: once a page fetch of a selection or of the repository listing has failed,
\* the run has ended with a non-zero status, without another fetch, and no mutation
\* has been called for an issue of the selection that failed.
C10_FetchFailureIsFatal ==
    /\ fetchFailed # "none" => (ctl.pc = "exit" /\ status \notin {-1, 0})
    /\ fetchFailed = "issues" => ~dirCalls

\* C10 witness: the fetch of a later page of a selection has failed, after an
\* earlier selection of the run had its issues mutated.
C10_Witness ==
    /\ fetchFailed = "issues"
    /\ ctl.res # <<>>
    /\ order # <<>>

\* the first entry of the configuration without an owner, 0 when every entry has one
FirstEmpty ==
    IF \E e \in 1..Len(cfgs) : cfgs[e].Owner = ""
    THEN CHOOSE e \in 1..Len(cfgs) :
            cfgs[e].Owner = "" /\ \A f \in 1..(e - 1) : cfgs[f].Owner # ""
    ELSE 0

\* C11: a run that reaches an entry with an empty owner ends there with status 2: it
\* makes no remote call for that entry and never goes on to a later one.  Status 2
\* has no other cause: a run that ends with status 1 has had a page fetch or a
\* mutation fail.
C11_EmptyOwnerExitsTwo ==
    /\ status = 2 => (/\ ctl.pc = "exit"
                      /\ ctl.ei = FirstEmpty
                      /\ lastCall.ei < ctl.ei)
    /\ (ctl.ei = FirstEmpty /\ ctl.pc # "main") => (ctl.pc = "exit" /\ status = 2)
    /\ FirstEmpty # 0 => (ctl.ei <= FirstEmpty /\ lastCall.ei < FirstEmpty)
    /\ status = 1 => (fetchFailed # "none" \/ exhausted)

\* C11 witness: the run has ended with status 2 at a first entry without owner, with
\* an entry after it that it has made no call for.
C11_Witness ==
    /\ status = 2
    /\ ctl.ei = 1
    /\ Len(cfgs) = 2
    /\ cfgs[2].Owner # ""
    /\ lastCall.ei = 0

\* the sequence a is the beginning of the sequence b
IsPrefix(a, b) == Len(a) <= Len(b) /\ SubSeq(b, 1, Len(a)) = a

\* the items of the first n responses of the log l of page requests, in order
RECURSIVE ItemsOf(_, _)
ItemsOf(l, n) == IF n = 0 THEN <<>> ELSE ItemsOf(l, n - 1) \o l[n].items

\* the log l of page requests starts with the first page, and each later request asks
\* for the page the response before it named as next
Chained(l) ==
    /\ l # <<>> => l[1].page = 0
    /\ \A k \in 1..(Len(l) - 1) : l[k].next # 0 /\ l[k + 1].page = l[k].next

\* the range over the repositories of the entry that was the latest to pass the owner
\* check has come to its end
EntryDone == ctl.pc = "main" \/ (ctl.pc = "exit" /\ status \in {0, 2})

\* C12: under an entry with a repository list, the repositories visited are those of
\* the list, one visit per list position in list order, and Repositories.List is not
\* called; under an entry without one, the repositories visited are those of the
\* pages listed, each once in page order, every page is visited in full before the
\* next is requested, and the listing ends with the first page whose NextPage is 0.
C12_ReposInOrder ==
    LET e == IF EntryDone THEN ctl.ei - 1 ELSE ctl.ei
    IN  (e >= 1 /\ e <= Len(cfgs) /\ cfgs[e].Owner # "")
        => IF cfgs[e].Repos # <<>>
           THEN /\ listed = <<>>
                /\ IsPrefix(visited, cfgs[e].Repos)
                /\ EntryDone => visited = cfgs[e].Repos
           ELSE /\ Chained(listed)
                /\ IsPrefix(visited, ItemsOf(listed, Len(listed)))
                /\ listed # <<>> => Len(visited) >= Len(ItemsOf(listed, Len(listed) - 1))
                /\ EntryDone => /\ listed # <<>>
                                /\ listed[Len(listed)].next = 0
                                /\ visited = ItemsOf(listed, Len(listed))
                                /\ visited = OwnerRepos

\* C12 witness: the run has ended after an entry with the list y, x, followed by an
\* entry without a list whose repositories came on two pages.
C12_Witness ==
    /\ status = 0
    /\ Len(cfgs) = 2
    /\ cfgs[1].Repos = <<"y", "x">>
    /\ cfgs[2].Repos = <<>>
    /\ Len(listed) = 2
    /\ visited = <<"x", "y">>

\* the pcs of the four retry loops
InLoop == ctl.pc \in {"labelIssue", "commentIssue", "closeIssue", "lockIssue"}

\* the kinds of mutation the inputs e of a handleIssue call for, in order: a function
\* of the snapshot e.i, the directive e.d and the clock reading e.now
Decide(e) ==
    IF e.i.locked \/ BlockedByClosed(e) \/ BlockedByUpdated(e)
    THEN <<>>
    ELSE (IF e.d.Label # "" /\ ~HasLabel(e.i.labels, e.d.Label) THEN <<"label">> ELSE <<>>)
         \o (IF e.d.Close /\ e.i.state # "closed" /\ e.d.CloseComment # ""
             THEN <<"comment">> ELSE <<>>)
         \o (IF e.d.Close /\ e.i.state # "closed" THEN <<"close">> ELSE <<>>)
         \o (IF e.d.Lock THEN <<"lock">> ELSE <<>>)

\* C13: the kinds of mutation a handleIssue calls are, in order, those that one
\* function of its snapshot, its directive and its clock reading gives: always a
\* beginning of them, and all of them once every call has succeeded and the last
\* loop is left.  Nothing else of the run (the issues and directives handled before,
\* the repository, the present state of the store) has a part in it.
C13_DecisionIsFunctionOfInputs ==
    eval # <<>>
    => /\ IsPrefix(order, Decide(eval[1]))
       /\ (~InLoop /\ \A j \in 1..Len(order) : succ[order[j]] = 1)
          => order = Decide(eval[1])

\* C13 witness: the second issue of a selection has been locked, with success, after
\* the first issue of the same repository had been closed and locked by this run.
C13_Witness ==
    /\ eval # <<>>
    /\ ~InLoop
    /\ eval[1].i.number = 2
    /\ order = <<"lock">>
    /\ succ["lock"] = 1
    /\ <<eval[1].repo, 1>> \in lockedByRun

\* the place p of a remote call comes before the place q, in the order of the nested
\* loops: entry, page of repositories, repository, directive, issue, step
LexLt(p, q) ==
    LET a == <<p.ei, p.rp, p.ri, p.di, p.ii, p.st>>
        b == <<q.ei, q.rp, q.ri, q.di, q.ii, q.st>>
    IN  \E k \in 1..6 : a[k] < b[k] /\ \A j \in 1..(k - 1) : a[j] = b[j]

\* C14: each remote call comes, in the order (entry, repository, directive, issue
\* position, action), after the call before it; only the next attempt of a retry loop
\* is at the place of the call before it.  With the selection of a directive at issue
\* position 0, the selection for the next directive so comes after every mutation for
\* this one, and the calls for one issue before those for the next.  The calls are
\* the steps of one sequential process: no two overlap.
C14_CallsInLoopOrder ==
    [][IF ctl.pc \in {"listRepos", "findIssues"} \/ (InLoop /\ ctl.i = 0)
       THEN LexLt(lastCall, lastCall')
       ELSE lastCall' = lastCall]_vars

\* C14 witness: the latest call is a lock of the second issue under the second
\* directive of the second entry.
C14_Witness ==
    /\ lastCall.ei = 2
    /\ lastCall.di = 2
    /\ lastCall.ii = 2
    /\ lastCall.st = 4

\* C15: under a directive with a CloseComment, a SetState call of a handleIssue comes
\* after a CreateComment call of the same handleIssue that succeeded.
C15_CloseOnlyAfterPostedComment ==
    (eval # <<>> /\ eval[1].d.CloseComment # "" /\ Called("close"))
    => (Called("comment") /\ succ["comment"] = 1)

\* C16: under a directive with DaysClosed > 0, handleIssue calls no mutation for an
\* issue whose snapshot has no closing time.
C16_NeverClosedNotMutated ==
    (eval # <<>> /\ eval[1].d.DaysClosed > 0 /\ eval[1].i.closedAt = ZeroTime)
    => (order = <<>> /\ tries = 0)

\* the repository and number of the issue that handleIssue or a retry loop is at
Target == <<ctl.rs[ctl.ri], ctl.issues[ctl.ii].number>>

\* C17: no mutation is called for an issue that a Lock call of this run has succeeded
\* for: the lock is the last call for its issue under its directive, and every later
\* selection brings the issue back with the locked flag, which handleIssue returns on.
\* (The store of the model shows a mutation at once, is changed by the run alone and
\* gives each issue once per selection.)
C17_NoMutationAfterLock ==
    /\ InLoop => Target \notin lockedByRun
    /\ (ctl.pc = "handleIssue" /\ Target \in lockedByRun) => ctl.issues[ctl.ii].locked

\* C17 witness: issue 2 of repository x, locked by this run, has been selected again
\* and handleIssue has returned on its locked flag, under a directive that asks for a
\* mutation it would otherwise get.
C17_Witness ==
    /\ eval # <<>>
    /\ ~InLoop
    /\ eval[1].repo = "x"
    /\ eval[1].i.number = 2
    /\ <<"x", 2>> \in lockedByRun
    /\ eval[1].i.locked
    /\ Decide([eval[1] EXCEPT !.i.locked = FALSE]) # <<>>
    /\ order = <<>>

\* C18: the requests of a selection start with the first page and each later one asks
\* for the NextPage of the response before it; none follows a response whose NextPage
\* is 0; while pages remain, the items gathered are those of the pages so far, in
\* order; the issues handed to handleIssue are the items of all pages up to and with
\* the first whose NextPage is 0.
C18_SelectionIsAllPages ==
    /\ Chained(fetched)
    /\ (ctl.pc = "findIssues" /\ ctl.opage # 0)
       => /\ fetched # <<>>
          /\ fetched[Len(fetched)].next = ctl.opage
          /\ ctl.res = ItemsOf(fetched, Len(fetched))
    /\ (ctl.pc = "handleIssue" \/ InLoop)
       => /\ fetched # <<>>
          /\ fetched[Len(fetched)].next = 0
          /\ ctl.issues = ItemsOf(fetched, Len(fetched))

\* C18 witness: a selection of two pages has returned the issues of both.
C18_Witness ==
    /\ ctl.pc = "handleIssue"
    /\ Len(fetched) = 2
    /\ fetched[2].page = fetched[1].next
    /\ Len(ctl.issues) = 2
    /\ ctl.issues[1].number = 1
    /\ ctl.issues[2].number = 2

\* C19 as stated: with an entry without owner anywhere in the configuration, the run
\* makes no remote call at all.
C19_NoCallBeforeAbort ==
    FirstEmpty # 0 => lastCall.ei = 0

\* C19, amended: the run makes no remote call for the first entry without owner or
\* for an entry after it, and never ends with status 0; the entries before that one
\* are processed, remote calls and all, before the run ends there with status 2.
C19_CallsOnlyBeforeEmptyOwner ==
    FirstEmpty # 0
    => /\ lastCall.ei < FirstEmpty
       /\ status \notin {0, 2} \/ ctl.ei = FirstEmpty
       /\ (status = 2 /\ FirstEmpty > 1)
          => /\ lastCall.ei = FirstEmpty - 1
             /\ visited # <<>>

\* C19 witness: the run has ended with status 2 at its second entry, after a mutation
\* under its first.
C19_Witness ==
    /\ status = 2
    /\ ctl.ei = 2
    /\ lastCall.ei = 1
    /\ succ["label"] = 1

\* C20: every run comes to its exit, and at the exit either the status is 0 and the
\* range over the entries is through, every entry having an owner, or the status is 2
\* and the run is at the first entry without owner, or the status is 1 and a page
\* fetch or every attempt of a mutation has failed.
C20_RunTerminates ==
    /\ <>(ctl.pc = "exit")
    /\ [](ctl.pc = "exit"
          => \/ status = 0 /\ ctl.ei = Len(cfgs) + 1 /\ FirstEmpty = 0
             \/ status = 2 /\ ctl.ei = FirstEmpty
             \/ status = 1 /\ ctl.ei <= Len(cfgs) /\ (fetchFailed # "none" \/ exhausted))

\* C20 witness: a run of two entries, with a repository listing of two pages under the
\* second, has ended with status 0 after mutations that succeeded late.
C20_Witness ==
    /\ ctl.pc = "exit"
    /\ status = 0
    /\ Len(cfgs) = 2
    /\ Len(listed) = 2
    /\ lockedByRun # {}
    /\ ~exhausted
    /\ sleeps # <<>>

====
